---- MODULE Spec2Model ----
(***************************************************************************)
(* Model of app.py: the answer normaliser (parse_options), the question    *)
(* scorer (evaluate_answer), the evaluation engine (evaluate) and the      *)
(* "Evaluate Now" button handler that builds the answer-key registry.      *)
(*                                                                         *)
(* Text is a sequence of one-character strings.  A spreadsheet cell is a   *)
(* record: a number, a text or NaN (an empty cell as pandas reads it).     *)
(***************************************************************************)
EXTENDS Integers, Sequences, FiniteSets, TLC

VARIABLES
  \* --- parse_options alone
  n_base,        \* the raw answer string first given to parse_options
  n_toks,        \* the tokens of the current respelling of that string
  normalized,    \* parse_options of the current respelling
  n_steps,       \* respelling steps applied so far
  \* --- evaluate_answer alone (one key row against one student cell)
  student_ans,   \* the student's cell
  key_row,       \* the key row: ANSWER_KEY, MARKS and QUESTION_TYPE (cell or absent)
  awarded,       \* what evaluate_answer returned, or Pending
  \* --- evaluate
  students_df,   \* [cols, rows]: the student table
  answer_keys,   \* the registry: (class, paper) -> key table [cols, rows]
  keys_given,    \* the registry as it was handed to evaluate
  pc,            \* position of the run
  idx,           \* index of the student row being evaluated
  krow,          \* index of the key row being scored
  row_result,    \* the copy of the student row being patched
  total_marks,   \* running total of the current row
  results,       \* rows appended so far
  warnings,      \* per student row, the key rows that caused st.warning
  \* --- the button handler
  student_file,  \* the uploaded student file, or NoFile
  uploaded_keys, \* the uploaded key files, in upload order
  fidx,          \* index of the key file being loaded
  messages       \* per key file, what the handler reported for it

normVars  == <<n_base, n_toks, normalized, n_steps>>
scoreVars == <<student_ans, key_row, awarded>>
evalVars  == <<students_df, answer_keys, keys_given, pc, idx, krow, row_result,
               total_marks, results, warnings>>
runVars   == <<student_file, uploaded_keys, fidx, messages>>
vars      == <<normVars, scoreVars, evalVars, runVars>>

----------------------------------------------------------------------------
(* Bounds of the model.                                                    *)

MaxTokens   == 2   \* tokens in a raw answer string given to parse_options
MaxRespell  == 2   \* respelling steps applied to one raw answer string
MaxAnsTok   == 2   \* tokens in the answers given to evaluate_answer
MaxStudents == 2   \* rows of the student table
MaxKeyRows  == 2   \* rows of a key table
MaxFiles    == 2   \* uploaded key files

----------------------------------------------------------------------------
(* Cells and text.                                                         *)

Num(n)  == [t |-> "num", n |-> n, s |-> <<>>]
Text(s) == [t |-> "str", n |-> 0, s |-> s]
NaN     == [t |-> "nan", n |-> 0, s |-> <<>>]
Pending == [t |-> "pending", n |-> 0, s |-> <<>>]

IsNum(c) == c.t = "num"

Whitespace == {" "}
Digits     == {"0", "1", "2", "3", "4", "5", "6", "7", "8", "9"}

\* All sequences over S of length at most n.
SeqUpTo(S, n) == UNION {[1..k -> S] : k \in 0..n}

DigitOf(d) == <<"0", "1", "2", "3", "4", "5", "6", "7", "8", "9">>[d + 1]

\* str(n) of a non-negative int.
RECURSIVE IntToStr(_)
IntToStr(n) == IF n < 10 THEN <<DigitOf(n)>>
               ELSE IntToStr(n \div 10) \o <<DigitOf(n % 10)>>

\* str(cell): Python's str() of a cell value.
ToStr(c) == CASE c.t = "num" -> IntToStr(c.n)
              [] c.t = "str" -> c.s
              [] OTHER       -> <<"n", "a", "n">>

\* pd.isna(cell)
IsNa(c) == c.t = "nan"

RECURSIVE LStrip(_)
LStrip(s) == IF s # <<>> /\ Head(s) \in Whitespace THEN LStrip(Tail(s)) ELSE s

RECURSIVE RStrip(_)
RStrip(s) == IF s # <<>> /\ s[Len(s)] \in Whitespace
             THEN RStrip(SubSeq(s, 1, Len(s) - 1)) ELSE s

\* str.strip()
Strip(s) == RStrip(LStrip(s))

UpperOf(ch) == CASE ch = "a" -> "A" [] ch = "b" -> "B" [] ch = "c" -> "C"
                 [] ch = "d" -> "D" [] ch = "l" -> "L" [] ch = "m" -> "M"
                 [] ch = "n" -> "N" [] ch = "o" -> "O" [] ch = "r" -> "R"
                 [] ch = "s" -> "S" [] ch = "t" -> "T" [] ch = "v" -> "V"
                 [] ch = "x" -> "X" [] OTHER -> ch

LowerOf(ch) == CASE ch = "A" -> "a" [] ch = "B" -> "b" [] ch = "C" -> "c"
                 [] ch = "D" -> "d" [] ch = "L" -> "l" [] ch = "M" -> "m"
                 [] ch = "N" -> "n" [] ch = "O" -> "o" [] ch = "P" -> "p"
                 [] ch = "R" -> "r" [] ch = "S" -> "s" [] ch = "T" -> "t"
                 [] ch = "V" -> "v" [] ch = "X" -> "x" [] OTHER -> ch

\* str.upper() and str.lower() on the letters the model uses.
Upper(s) == [i \in 1..Len(s) |-> UpperOf(s[i])]
Lower(s) == [i \in 1..Len(s) |-> LowerOf(s[i])]

Contains(s, ch) == \E i \in 1..Len(s) : s[i] = ch

FirstIndex(s, ch) == CHOOSE i \in 1..Len(s) : s[i] = ch /\ \A j \in 1..(i - 1) : s[j] # ch

\* str.split(ch): the pieces between occurrences of ch, empty pieces kept.
RECURSIVE Split(_, _)
Split(s, ch) == IF ~Contains(s, ch) THEN <<s>>
                ELSE LET i == FirstIndex(s, ch)
                     IN <<SubSeq(s, 1, i - 1)>> \o Split(SubSeq(s, i + 1, Len(s)), ch)

StartsWith(s, p) == Len(s) >= Len(p) /\ SubSeq(s, 1, Len(p)) = p
EndsWith(s, p)   == Len(s) >= Len(p) /\ SubSeq(s, Len(s) - Len(p) + 1, Len(s)) = p

\* The tokens joined by commas.
RECURSIVE Join(_)
Join(toks) == IF toks = <<>> THEN <<>>
              ELSE IF Len(toks) = 1 THEN toks[1]
              ELSE toks[1] \o <<",">> \o Join(Tail(toks))

----------------------------------------------------------------------------
(* float(t) and the canonical token, for tokens written with an optional   *)
(* sign, digits and at most one decimal point (no exponent, inf or nan).   *)

HasSign(t)   == t # <<>> /\ t[1] \in {"+", "-"}
Unsigned(t)  == IF HasSign(t) THEN Tail(t) ELSE t
IsNegative(t) == t # <<>> /\ t[1] = "-"

\* float(t) succeeds (t already stripped).
IsFloat(t) ==
  LET b == Unsigned(t)
  IN /\ \A i \in 1..Len(b) : b[i] \in Digits \cup {"."}
     /\ Cardinality({i \in 1..Len(b) : b[i] = "."}) <= 1
     /\ \E i \in 1..Len(b) : b[i] \in Digits

IntPart(b)  == IF Contains(b, ".") THEN SubSeq(b, 1, FirstIndex(b, ".") - 1) ELSE b
FracPart(b) == IF Contains(b, ".") THEN SubSeq(b, FirstIndex(b, ".") + 1, Len(b)) ELSE <<>>

RECURSIVE DropLeadingZeros(_)
DropLeadingZeros(d) == IF d # <<>> /\ Head(d) = "0" THEN DropLeadingZeros(Tail(d)) ELSE d

RECURSIVE DropTrailingZeros(_)
DropTrailingZeros(d) == IF d # <<>> /\ d[Len(d)] = "0"
                        THEN DropTrailingZeros(SubSeq(d, 1, Len(d) - 1)) ELSE d

\* num.is_integer()
IsInteger(t) == DropTrailingZeros(FracPart(Unsigned(t))) = <<>>

\* str(int(num)): no sign for zero, no leading zeros.
IntString(t) ==
  LET d == DropLeadingZeros(IntPart(Unsigned(t)))
  IN IF d = <<>> THEN <<"0">>
     ELSE IF IsNegative(t) THEN <<"-">> \o d ELSE d

\* str(num) of a non-integral float written with a few digits.
FloatString(t) ==
  LET d == DropLeadingZeros(IntPart(Unsigned(t)))
      f == DropTrailingZeros(FracPart(Unsigned(t)))
  IN (IF IsNegative(t) THEN <<"-">> ELSE <<>>)
       \o (IF d = <<>> THEN <<"0">> ELSE d) \o <<".">> \o f

\* A token kept as written: the numeric canonical form forgotten.
NormalizeTokenVerbatim(t) == t

\* One token of parse_options, lines 18-22.
NormalizeToken(t) ==
  IF IsFloat(t) THEN (IF IsInteger(t) THEN IntString(t) ELSE FloatString(t))
  ELSE t

\* Lines 11-12: the tokens of the stripped string.
Tokens(s) ==
  IF Contains(s, ",")
  THEN LET parts == Split(s, ",") IN [i \in 1..Len(parts) |-> Strip(parts[i])]
  ELSE <<s>>

\* parse_options(option_str), lines 7-23.
parse_options(option_str) ==
  IF IsNa(option_str) THEN {}
  ELSE LET toks == Tokens(Strip(ToStr(option_str)))
       IN {NormalizeToken(toks[i]) : i \in {j \in 1..Len(toks) : toks[j] # <<>>}}

\* A scorer whose OR branch asks for equal sets, like the other branches.
evaluate_answer_or_as_and(s_ans, correct_ans, q_type, marks) ==
  IF parse_options(s_ans) = parse_options(correct_ans) THEN marks ELSE Num(0)

\* evaluate_answer(student_ans, correct_ans, q_type, marks), lines 26-36.
evaluate_answer(s_ans, correct_ans, q_type, marks) ==
  LET student_set == parse_options(s_ans)
      correct_set == parse_options(correct_ans)
  IN IF q_type = <<"A", "N", "D">>
     THEN (IF student_set = correct_set THEN marks ELSE Num(0))
     ELSE IF q_type = <<"O", "R">>
     THEN (IF student_set \cap correct_set # {} THEN marks ELSE Num(0))
     ELSE (IF student_set = correct_set THEN marks ELSE Num(0))

----------------------------------------------------------------------------
(* parse_options on its own: a raw answer string is respelled step by step *)
(* (tokens reordered, repeated, padded with blanks, an integer written     *)
(* with or without ".0") and normalised again after every step.            *)

TokenPool == {<<"1">>, <<"2">>, <<"A">>, <<"1", ".", "5">>, <<>>}

\* A token written as an integer: digits only.
IsPlainInt(t) == t # <<>> /\ \A i \in 1..Len(t) : t[i] \in Digits

DotZero == <<".", "0">>

Swapped(toks, i, j) ==
  [k \in 1..Len(toks) |-> IF k = i THEN toks[j] ELSE IF k = j THEN toks[i] ELSE toks[k]]

NormInit ==
  /\ n_toks \in SeqUpTo(TokenPool, MaxTokens)
  /\ n_base \in {Text(Join(n_toks))} \cup (IF n_toks = <<>> THEN {NaN} ELSE {})
  /\ normalized = parse_options(n_base)
  /\ n_steps = 0

Respell(toks) ==
  /\ n_steps < MaxRespell
  /\ n_toks' = toks
  /\ normalized' = parse_options(Text(Join(toks)))
  /\ n_steps' = n_steps + 1
  /\ UNCHANGED <<n_base, scoreVars, evalVars, runVars>>

Reorder ==
  \E i, j \in 1..Len(n_toks) : i < j /\ Respell(Swapped(n_toks, i, j))

Repeat ==
  \E i \in 1..Len(n_toks) : Respell(Append(n_toks, n_toks[i]))

PadToken ==
  \E i \in 1..Len(n_toks) :
    \E padded \in {<<" ">> \o n_toks[i], n_toks[i] \o <<" ">>} :
      Respell([n_toks EXCEPT ![i] = padded])

AddDotZero ==
  \E i \in 1..Len(n_toks) :
    /\ IsPlainInt(n_toks[i])
    /\ Respell([n_toks EXCEPT ![i] = n_toks[i] \o DotZero])

DropDotZero ==
  \E i \in 1..Len(n_toks) :
    LET t == n_toks[i] IN
    /\ EndsWith(t, DotZero)
    /\ IsPlainInt(SubSeq(t, 1, Len(t) - 2))
    /\ Respell([n_toks EXCEPT ![i] = SubSeq(t, 1, Len(t) - 2)])

NormNext == Reorder \/ Repeat \/ PadToken \/ AddDotZero \/ DropDotZero

----------------------------------------------------------------------------
(* Key rows and the question type.                                         *)

\* The value a key row holds for a column its table lacks.
Absent == [t |-> "absent", n |-> 0, s |-> <<>>]

KeyCols == {"QUESTION_NO", "ANSWER_KEY", "MARKS", "QUESTION_TYPE"}

KeyRow(q, a, m, ty) ==
  [QUESTION_NO |-> q, ANSWER_KEY |-> a, MARKS |-> m, QUESTION_TYPE |-> ty]

\* Line 81: str(row.get("QUESTION_TYPE", "")).strip().upper() or "NORMAL".
QuestionType(row) ==
  LET raw == IF row.QUESTION_TYPE = Absent THEN <<>> ELSE ToStr(row.QUESTION_TYPE)
      ty  == Upper(Strip(raw))
  IN IF ty = <<>> THEN <<"N", "O", "R", "M", "A", "L">> ELSE ty

----------------------------------------------------------------------------
(* evaluate_answer on its own: one student cell against one key row.       *)

ScoreTokenPool == {<<"A">>, <<"2">>, <<"2", ".", "0">>}

ScoreAnswers == {Text(Join(toks)) : toks \in SeqUpTo(ScoreTokenPool, MaxAnsTok)} \cup {NaN}

ScoreTypes == {Absent, NaN, Text(<<>>), Text(<<"A", "N", "D">>), Text(<<"a", "n", "d", " ">>),
               Text(<<"O", "R">>), Text(<<" ", "o", "r">>),
               Text(<<"N", "O", "R", "M", "A", "L">>), Text(<<"X", "O", "R">>)}

ScoreMarks == {Num(0), Num(2), Text(<<"x">>)}

ScoreInit ==
  /\ student_ans \in ScoreAnswers
  /\ key_row \in {KeyRow(Num(1), a, m, ty) : a \in ScoreAnswers, m \in ScoreMarks, ty \in ScoreTypes}
  /\ awarded = Pending

\* Lines 79-85: the scorer called with the key row's answer, type and marks.
Score ==
  /\ awarded = Pending
  /\ awarded' = evaluate_answer(student_ans, key_row.ANSWER_KEY, QuestionType(key_row),
                                key_row.MARKS)
  /\ UNCHANGED <<student_ans, key_row, normVars, evalVars, runVars>>

ScoreNext == Score

----------------------------------------------------------------------------
(* evaluate(students_df, answer_keys), lines 55-95, one loop step at a     *)
(* time.  A student row is a function from column names to cells.          *)

ColClass == <<"C", "l", "a", "s", "s">>
ColPaper == <<"P", "a", "p", "e", "r">>
ColName  == <<"N", "a", "m", "e">>
ColTotal == <<"T", "o", "t", "a", "l", "_", "M", "a", "r", "k", "s">>
ColQ1    == <<"Q", "_", "1">>
ColQ2    == <<"Q", "_", "2">>
QPrefix  == <<"Q", "_">>

\* student.get(col, default)
Get(row, col, default) == IF col \in DOMAIN row THEN row[col] ELSE default

\* row[col] = v on a Series: the column is added when the row lacks it.
Put(row, col, v) == [c \in DOMAIN row \cup {col} |-> IF c = col THEN v ELSE row[c]]

\* Line 57: the columns of the student table whose name starts with "Q_".
all_question_cols(df) == {c \in df.cols : StartsWith(c, QPrefix)}

\* Lines 61-62: the trimmed (Class, Paper) of a student row.
Identity(student) ==
  <<Strip(ToStr(Get(student, ColClass, Text(<<>>)))),
    Strip(ToStr(Get(student, ColPaper, Text(<<>>))))>>

\* An unmatched row given a zero total with its answers left in place.
ZeroRowKeepsAnswers(student, qcols) == Put(student, ColTotal, Num(0))

\* An unmatched row zeroed over every column instead of the Q_ columns.
ZeroRowAllColumns(student, qcols) ==
  [c \in DOMAIN student \cup {ColTotal} |-> Num(0)]

\* Lines 67-69: the result row of a student without a key table.
ZeroRow(student, qcols) ==
  Put([c \in DOMAIN student |-> IF c \in qcols THEN Num(0) ELSE student[c]],
      ColTotal, Num(0))

\* Line 74: ans_df["QUESTION_NO"] = ans_df["QUESTION_NO"].astype(str), in place.
CoerceQuestionNo(tbl) ==
  [tbl EXCEPT !.rows = [i \in 1..Len(tbl.rows) |->
                          [tbl.rows[i] EXCEPT !.QUESTION_NO = Text(ToStr(@))]]]

\* The total initialised once, before the loop over students.
StartTotalCarried(prev) == prev

\* Line 75: total_marks = 0 (prev is the value the variable held).
StartTotal(prev) == Num(0)

\* Lines 78 and 83: q_col = f"Q_{q_no}".
QuestionCol(row) == QPrefix \o Strip(ToStr(row.QUESTION_NO))

\* Lines 79-80 raise KeyError when the key table lacks the column.
RowReadable(tbl) == {"ANSWER_KEY", "MARKS"} \subseteq tbl.cols

\* Line 85.
Awarded(student, row) ==
  evaluate_answer(student[QuestionCol(row)], row.ANSWER_KEY, QuestionType(row), row.MARKS)

\* Line 87: total_marks += awarded; int + str raises TypeError, NaN spreads.
CanAdd(a) == a.t # "str"
AddMarks(total, a) == IF IsNum(total) /\ IsNum(a) THEN Num(total.n + a.n) ELSE NaN

\* Line 86: row_result[q_col] = awarded.
WriteAwarded(result, q_col, a) == Put(result, q_col, a)

\* A missing question column that throws away the marks awarded so far.
AfterWarningReset(state) == <<state[1], Num(0)>>

\* Line 89: a missing question column writes nothing and adds nothing
\* (state is the pair of row_result and total_marks).
AfterWarning(state) == state

CurStudent == students_df.rows[idx]
CurTable   == answer_keys[Identity(CurStudent)]
CurKeyRow  == CurTable.rows[krow]

\* Lines 60-71: a row whose (Class, Paper) is not in the registry.
UnmatchedRow ==
  /\ pc = "rows" /\ idx <= Len(students_df.rows)
  /\ Identity(CurStudent) \notin DOMAIN answer_keys
  /\ results' = Append(results, ZeroRow(CurStudent, all_question_cols(students_df)))
  /\ idx' = idx + 1
  /\ UNCHANGED <<normVars, scoreVars, runVars, students_df, answer_keys, keys_given, pc,
                 krow, row_result, total_marks, warnings>>

\* Lines 60-65 and 73-75: a row with a key table.
MatchedRow ==
  /\ pc = "rows" /\ idx <= Len(students_df.rows)
  /\ Identity(CurStudent) \in DOMAIN answer_keys
  /\ "QUESTION_NO" \in CurTable.cols
  /\ answer_keys' = [answer_keys EXCEPT ![Identity(CurStudent)] = CoerceQuestionNo(@)]
  /\ row_result' = CurStudent
  /\ total_marks' = StartTotal(total_marks)
  /\ krow' = 1
  /\ pc' = "keys"
  /\ UNCHANGED <<normVars, scoreVars, runVars, students_df, keys_given, idx, results,
                 warnings>>

\* Line 74 raises KeyError: the key table has no QUESTION_NO column.
RaiseNoQuestionNo ==
  /\ pc = "rows" /\ idx <= Len(students_df.rows)
  /\ Identity(CurStudent) \in DOMAIN answer_keys
  /\ "QUESTION_NO" \notin CurTable.cols
  /\ pc' = "raised"
  /\ krow' = 0
  /\ UNCHANGED <<normVars, scoreVars, runVars, students_df, answer_keys, keys_given,
                 idx, row_result, total_marks, results, warnings>>

\* Lines 77-87: a key row whose question column is in the student table.
ScoreQuestion ==
  /\ pc = "keys" /\ krow <= Len(CurTable.rows)
  /\ RowReadable(CurTable)
  /\ QuestionCol(CurKeyRow) \in students_df.cols
  /\ CanAdd(Awarded(CurStudent, CurKeyRow))
  /\ row_result' = WriteAwarded(row_result, QuestionCol(CurKeyRow),
                                Awarded(CurStudent, CurKeyRow))
  /\ total_marks' = AddMarks(total_marks, Awarded(CurStudent, CurKeyRow))
  /\ krow' = krow + 1
  /\ UNCHANGED <<normVars, scoreVars, runVars, students_df, answer_keys, keys_given, pc,
                 idx, results, warnings>>

\* Lines 77-84 and 88-89: a key row whose question column is missing.
WarnMissingColumn ==
  /\ pc = "keys" /\ krow <= Len(CurTable.rows)
  /\ RowReadable(CurTable)
  /\ QuestionCol(CurKeyRow) \notin students_df.cols
  /\ warnings' = Append(warnings, <<idx, krow>>)
  /\ row_result' = AfterWarning(<<row_result, total_marks>>)[1]
  /\ total_marks' = AfterWarning(<<row_result, total_marks>>)[2]
  /\ krow' = krow + 1
  /\ UNCHANGED <<normVars, scoreVars, runVars, students_df, answer_keys, keys_given, pc,
                 idx, results>>

\* Lines 79-80 raise KeyError (no ANSWER_KEY or MARKS column); line 87 raises
\* TypeError (the awarded MARKS value is text).
RaiseInKeyRow ==
  /\ pc = "keys" /\ krow <= Len(CurTable.rows)
  /\ \/ ~RowReadable(CurTable)
     \/ /\ RowReadable(CurTable)
        /\ QuestionCol(CurKeyRow) \in students_df.cols
        /\ ~CanAdd(Awarded(CurStudent, CurKeyRow))
  /\ pc' = "raised"
  /\ UNCHANGED <<normVars, scoreVars, runVars, students_df, answer_keys, keys_given,
                 idx, krow, row_result, total_marks, results, warnings>>

\* Lines 91-92: the row's total is written and the row appended.
FinishRow ==
  /\ pc = "keys" /\ krow > Len(CurTable.rows)
  /\ results' = Append(results, Put(row_result, ColTotal, total_marks))
  /\ idx' = idx + 1
  /\ pc' = "rows"
  /\ UNCHANGED <<normVars, scoreVars, runVars, students_df, answer_keys, keys_given,
                 krow, row_result, total_marks, warnings>>

\* Lines 94-95: evaluate returns the table of result rows.
Return ==
  /\ pc = "rows" /\ idx > Len(students_df.rows)
  /\ pc' = "returned"
  /\ UNCHANGED <<normVars, scoreVars, runVars, students_df, answer_keys, keys_given,
                 idx, krow, row_result, total_marks, results, warnings>>

EvaluateStep ==
  \/ UnmatchedRow
  \/ MatchedRow
  \/ RaiseNoQuestionNo
  \/ ScoreQuestion
  \/ WarnMissingColumn
  \/ RaiseInKeyRow
  \/ FinishRow
  \/ Return

\* The state on entry to evaluate, lines 57-58.
EnterEvaluate(df, keys) ==
  /\ students_df = df
  /\ answer_keys = keys
  /\ keys_given = keys
  /\ pc = "rows"
  /\ idx = 1
  /\ krow = 0
  /\ row_result = <<>>
  /\ total_marks = Num(0)
  /\ results = <<>>
  /\ warnings = <<>>

----------------------------------------------------------------------------
(* The inputs evaluate is run on.                                          *)

StudentRow(cls, pap, q1, q2) ==
  (ColClass :> cls) @@ (ColPaper :> pap) @@ (ColName :> Text(<<"n">>))
    @@ (ColTotal :> Num(7)) @@ (ColQ1 :> q1) @@ (ColQ2 :> q2)

StudentRowPool ==
  { StudentRow(Text(<<"1">>), Num(1), Text(<<"B", ",", "A">>), Text(<<"B">>)),
    StudentRow(Text(<<" ", "1", " ">>), Text(<<"1">>), Text(<<"A">>), NaN),
    StudentRow(Text(<<" ">>), Num(1), Text(<<"A", ",", "B">>), Num(2)) }

StudentColumnSets ==
  { {ColClass, ColPaper, ColName, ColQ1, ColQ2},
    {ColClass, ColPaper, ColTotal, ColQ1},
    {ColPaper, ColQ1} }

Restrict(row, cols) == [c \in cols |-> row[c]]

StudentTables ==
  { [cols |-> cs, rows |-> [i \in 1..Len(rs) |-> Restrict(rs[i], cs)]] :
      cs \in StudentColumnSets, rs \in SeqUpTo(StudentRowPool, MaxStudents) }

KeyRowPool ==
  { KeyRow(Num(1), Text(<<"A", ",", "B">>), Num(2), Text(<<"a", "n", "d", " ">>)),
    KeyRow(Text(<<" ", "2">>), Text(<<"B", ",", "2", ".", "0">>), Num(1), Text(<<"O", "R">>)),
    KeyRow(Num(3), Text(<<"A">>), Num(4), Text(<<>>)),
    KeyRow(Num(1), Text(<<"A">>), Text(<<"x">>), Text(<<"o", "r">>)) }

\* A key table whose file lacks some columns: its rows hold Absent there.
Lacking(tbl, missing) ==
  [cols |-> tbl.cols \ missing,
   rows |-> [i \in 1..Len(tbl.rows) |->
               [c \in KeyCols |-> IF c \in missing THEN Absent ELSE tbl.rows[i][c]]]]

FullKeyTables == { [cols |-> KeyCols, rows |-> rs] : rs \in SeqUpTo(KeyRowPool, MaxKeyRows) }

OneRowTable ==
  [cols |-> KeyCols,
   rows |-> <<KeyRow(Num(1), Text(<<"A", ",", "B">>), Num(2), Text(<<"a", "n", "d", " ">>))>>]

PartialKeyTables ==
  { Lacking(OneRowTable, {"QUESTION_TYPE"}),
    Lacking(OneRowTable, {"MARKS"}),
    Lacking([cols |-> KeyCols, rows |-> <<>>], {"QUESTION_NO"}) }

KeyTables == FullKeyTables \cup PartialKeyTables

\* The table registered for students whose Class is blank or absent.
SecondTables ==
  { [cols |-> KeyCols,
     rows |-> <<KeyRow(Text(<<"1">>), Text(<<"A">>), Num(1), Text(<<"O", "R">>)),
                KeyRow(Num(2), Text(<<"B">>), Num(5), NaN)>>] }

Id11 == <<<<"1">>, <<"1">>>>
Id01 == <<<<>>, <<"1">>>>

Registries ==
  {<<>>} \cup {(Id11 :> t) : t \in KeyTables}
         \cup {(Id11 :> t) @@ (Id01 :> u) : t \in KeyTables, u \in SecondTables}

IdleNorm  == n_base = NaN /\ n_toks = <<>> /\ normalized = {} /\ n_steps = 0
IdleScore == student_ans = NaN /\ key_row = KeyRow(NaN, NaN, NaN, NaN) /\ awarded = Pending
IdleRun   == student_file = <<>> /\ uploaded_keys = <<>> /\ fidx = 0 /\ messages = <<>>
IdleEval  == EnterEvaluate([cols |-> {}, rows |-> <<>>], <<>>)

EvalInit ==
  /\ \E df \in StudentTables, keys \in Registries : EnterEvaluate(df, keys)
  /\ IdleNorm /\ IdleScore /\ IdleRun

EvalNext == EvaluateStep

InitNorm  == NormInit /\ IdleScore /\ IdleEval /\ IdleRun
InitScore == ScoreInit /\ IdleNorm /\ IdleEval /\ IdleRun

SpecNorm  == InitNorm /\ [][NormNext]_vars
SpecScore == InitScore /\ [][ScoreNext]_vars
SpecEval  == EvalInit /\ [][EvalNext]_vars

----------------------------------------------------------------------------
(* The "Evaluate Now" handler, lines 124-165.  An uploaded file is its     *)
(* name, whether its bytes can be decoded, and the table they decode to.   *)

NoFile == <<>>

File(name, readable, table) == [name |-> name, readable |-> readable, table |-> table]

NoTable == [cols |-> {}, rows |-> <<>>]

ExtCsv  == <<".", "c", "s", "v">>
ExtXls  == <<".", "x", "l", "s">>
ExtXlsx == <<".", "x", "l", "s", "x">>

\* Lines 41-47: the extension test on the lower-cased name.
Supported(name) ==
  LET filename == Lower(name)
  IN EndsWith(filename, ExtCsv) \/ EndsWith(filename, ExtXls) \/ EndsWith(filename, ExtXlsx)

\* read_uploaded_file(file), lines 39-52: "ok" with the table, or the error
\* it reports before returning None.
ReadOutcome(file) ==
  IF ~Supported(file.name) THEN "unsupported"
  ELSE IF ~file.readable THEN "unreadable"
  ELSE "ok"

\* Lines 140-141 raise IndexError when the name has no "C" or no "P".
NameParses(name) == Len(Split(name, "C")) >= 2 /\ Len(Split(name, "P")) >= 2

\* Line 140: cls = filename.split("C")[1].split("P")[0]
ClassOf(name) == Split(Split(name, "C")[2], "P")[1]

\* Line 141: pap = filename.split("P")[1].split(".")[0]
PaperOf(name) == Split(Split(name, "P")[2], ".")[1]

\* Line 144: the registry key of a key file.
RegistryKey(name) == <<Strip(ClassOf(name)), Strip(PaperOf(name))>>

\* Lines 139-147 for one key file: what is reported for it.
KeyFileOutcome(file) ==
  IF ~NameParses(file.name) THEN "name_error" ELSE ReadOutcome(file)

\* Lines 125-126.
RejectNoStudent ==
  /\ pc = "idle"
  /\ student_file = NoFile
  /\ pc' = "rejected"
  /\ UNCHANGED <<normVars, scoreVars, runVars, students_df, answer_keys, keys_given,
                 idx, krow, row_result, total_marks, results, warnings>>

\* Lines 127-128.
RejectNoKeys ==
  /\ pc = "idle"
  /\ student_file # NoFile
  /\ uploaded_keys = <<>>
  /\ pc' = "rejected"
  /\ UNCHANGED <<normVars, scoreVars, runVars, students_df, answer_keys, keys_given,
                 idx, krow, row_result, total_marks, results, warnings>>

\* Lines 131-133: the student file does not load and st.stop() ends the run.
StopOnStudentFile ==
  /\ pc = "idle"
  /\ student_file # NoFile
  /\ uploaded_keys # <<>>
  /\ ReadOutcome(student_file) # "ok"
  /\ pc' = "stopped"
  /\ UNCHANGED <<normVars, scoreVars, runVars, students_df, answer_keys, keys_given,
                 idx, krow, row_result, total_marks, results, warnings>>

\* Lines 131-136: the student table is loaded and the registry starts empty.
StartLoading ==
  /\ pc = "idle"
  /\ student_file # NoFile
  /\ uploaded_keys # <<>>
  /\ ReadOutcome(student_file) = "ok"
  /\ students_df' = student_file.table
  /\ answer_keys' = <<>>
  /\ fidx' = 1
  /\ pc' = "loading"
  /\ UNCHANGED <<normVars, scoreVars, student_file, uploaded_keys, messages, keys_given,
                 idx, krow, row_result, total_marks, results, warnings>>

\* Lines 137-147: one key file is parsed, read and, when read, registered.
LoadKeyFile ==
  /\ pc = "loading" /\ fidx <= Len(uploaded_keys)
  /\ LET file == uploaded_keys[fidx]
         outcome == KeyFileOutcome(file)
     IN /\ messages' = Append(messages, outcome)
        /\ answer_keys' = IF outcome = "ok"
                          THEN Put(answer_keys, RegistryKey(file.name), file.table)
                          ELSE answer_keys
  /\ fidx' = fidx + 1
  /\ UNCHANGED <<normVars, scoreVars, student_file, uploaded_keys, students_df, keys_given,
                 pc, idx, krow, row_result, total_marks, results, warnings>>

\* Line 150: evaluate is called with the registry as loaded.
CallEvaluate ==
  /\ pc = "loading" /\ fidx > Len(uploaded_keys)
  /\ keys_given' = answer_keys
  /\ pc' = "rows"
  /\ idx' = 1
  /\ results' = <<>>
  /\ warnings' = <<>>
  /\ UNCHANGED <<normVars, scoreVars, runVars, students_df, answer_keys, krow,
                 row_result, total_marks>>

\* Lines 153-165: "Evaluation complete", the table shown and offered.
Complete ==
  /\ pc = "returned"
  /\ pc' = "complete"
  /\ UNCHANGED <<normVars, scoreVars, runVars, students_df, answer_keys, keys_given,
                 idx, krow, row_result, total_marks, results, warnings>>

RunStudentTable ==
  [cols |-> {ColClass, ColPaper, ColName, ColQ1, ColQ2},
   rows |-> [i \in 1..2 |->
               Restrict(<<StudentRow(Text(<<"1">>), Num(1), Text(<<"B", ",", "A">>), Text(<<"B">>)),
                          StudentRow(Text(<<"9">>), Num(1), Text(<<"A">>), NaN)>>[i],
                        {ColClass, ColPaper, ColName, ColQ1, ColQ2})]]

StudentFiles ==
  { NoFile,
    File(<<"s", ".", "x", "l", "s", "x">>, TRUE, RunStudentTable),
    File(<<"s", ".", "c", "s", "v">>, FALSE, NoTable),
    File(<<"s", ".", "t", "x", "t">>, TRUE, RunStudentTable) }

KeyFileNames ==
  { <<"C", "1", "P", "1", ".", "c", "s", "v">>,
    <<"C", " ", "1", "P", "1", " ", ".", "X", "L", "S", "X">>,
    <<"P", "1", "C", "1", ".", "c", "s", "v">>,
    <<"k", "e", "y", ".", "c", "s", "v">>,
    <<"C", "1", "P", "1", ".", "t", "x", "t">> }

RunKeyTables ==
  { [cols |-> KeyCols,
     rows |-> <<KeyRow(Num(3), Text(<<"A">>), Num(4), Text(<<>>)),
                KeyRow(Num(1), Text(<<"A", ",", "B">>), Num(2), Text(<<"a", "n", "d", " ">>))>>],
    Lacking(OneRowTable, {"MARKS"}),
    Lacking([cols |-> KeyCols, rows |-> <<>>], {"QUESTION_NO"}) }

KeyFiles ==
  { File(nm, TRUE, t) : nm \in KeyFileNames, t \in RunKeyTables }
    \cup { File(nm, FALSE, NoTable) : nm \in KeyFileNames }

InitRun ==
  /\ student_file \in StudentFiles
  /\ uploaded_keys \in SeqUpTo(KeyFiles, MaxFiles)
  /\ fidx = 0
  /\ messages = <<>>
  /\ students_df = NoTable /\ answer_keys = <<>> /\ keys_given = <<>>
  /\ pc = "idle" /\ idx = 0 /\ krow = 0 /\ row_result = <<>>
  /\ total_marks = Num(0) /\ results = <<>> /\ warnings = <<>>
  /\ IdleNorm /\ IdleScore

RunNext ==
  \/ RejectNoStudent
  \/ RejectNoKeys
  \/ StopOnStudentFile
  \/ StartLoading
  \/ LoadKeyFile
  \/ CallEvaluate
  \/ EvaluateStep
  \/ Complete

SpecRun == InitRun /\ [][RunNext]_vars

----------------------------------------------------------------------------
(* Properties.                                                             *)

Rows        == students_df.rows
QCols       == all_question_cols(students_df)
Matched(i)  == Identity(Rows[i]) \in DOMAIN keys_given
GivenTable(i) == keys_given[Identity(Rows[i])]
Warned      == {warnings[j] : j \in 1..Len(warnings)}
MissingColumn(r) == QuestionCol(r) \notin students_df.cols
IsPresent(r)     == ~MissingColumn(r)

\* The key rows of a table that have a question column in the student table.
WithoutMissing(rows) == SelectSeq(rows, IsPresent)

\* Every key row of rows scored against the student, in order; acc is the
\* pair of the result row and the total so far.
RECURSIVE ScoreAll(_, _, _)
ScoreAll(student, rows, acc) ==
  IF rows = <<>> THEN acc
  ELSE ScoreAll(student, Tail(rows),
                <<Put(acc[1], QuestionCol(Head(rows)), Awarded(student, Head(rows))),
                  AddMarks(acc[2], Awarded(student, Head(rows)))>>)

\* The result row of one student evaluated on its own against a registry.
RowAlone(student, keys) ==
  IF Identity(student) \notin DOMAIN keys
  THEN [c \in DOMAIN student \cup {ColTotal} |->
          IF c \in QCols \/ c = ColTotal THEN Num(0) ELSE student[c]]
  ELSE LET acc == ScoreAll(student, WithoutMissing(keys[Identity(student)].rows),
                           <<student, Num(0)>>)
       IN Put(acc[1], ColTotal, acc[2])

RECURSIVE SumCols(_, _)
SumCols(row, cols) ==
  IF cols = {} THEN 0
  ELSE LET c == CHOOSE x \in cols : TRUE
       IN row[c].n + SumCols(row, cols \ {c})

\* C1: a student row whose trimmed (Class, Paper) is not a key of the
\* registry gets 0 in every Q_ column and Total_Marks 0 whatever its answers
\* are, and evaluate never raises while it is on such a row.
C1_UnmatchedRowIsAllZero ==
  /\ \A i \in 1..Len(results) :
       ~Matched(i) =>
         /\ \A c \in QCols : results[i][c] = Num(0)
         /\ results[i][ColTotal] = Num(0)
  /\ (pc = "raised" => Matched(idx))

\* C1 witness: evaluate has returned; a row with a non-empty answer had no
\* key table, while another row of the same run scored marks.
C1_Witness ==
  /\ pc = "returned"
  /\ \E i, j \in 1..Len(results) :
       /\ ~Matched(i) /\ parse_options(Rows[i][ColQ1]) # {}
       /\ Matched(j) /\ results[j][ColTotal] # Num(0)

\* C2: in every result row whose Q_ columns hold awarded marks, Total_Marks
\* equals the sum of the Q_ columns of that row.
C2_TotalIsSumOfQuestionColumns ==
  \A i \in 1..Len(results) :
    (\A c \in QCols : IsNum(results[i][c])) =>
       /\ IsNum(results[i][ColTotal])
       /\ results[i][ColTotal].n = SumCols(results[i], QCols)

\* C3: the score is marks or 0: with type OR it is marks iff the two
\* normalized answer sets intersect; with any other type (trimmed and
\* uppercased; empty or absent counts as NORMAL) iff they are equal.
C3_ScoreByType ==
  awarded # Pending =>
    LET raw  == IF key_row.QUESTION_TYPE = Absent THEN <<>>
                ELSE ToStr(key_row.QUESTION_TYPE)
        isOr == Upper(Strip(raw)) = <<"O", "R">>
        s    == parse_options(student_ans)
        k    == parse_options(key_row.ANSWER_KEY)
        hit  == IF isOr THEN s \cap k # {} ELSE s = k
    IN awarded = IF hit THEN key_row.MARKS ELSE Num(0)

\* C3 witness: a type written " or" awarded the marks to an answer that
\* overlaps the key without being equal to it.
C3_Witness ==
  /\ awarded = Num(2)
  /\ key_row.QUESTION_TYPE = Text(<<" ", "o", "r">>)
  /\ parse_options(student_ans) # parse_options(key_row.ANSWER_KEY)

\* C4: however the tokens of a raw string are reordered, repeated, padded
\* with blanks or written with and without ".0", parse_options yields the
\* set it yields for the original string; an absent value and a string of
\* only empty tokens yield the empty set.
C4_RespellingKeepsTheSet ==
  /\ normalized = parse_options(n_base)
  /\ (n_base = NaN \/ \A i \in 1..Len(n_toks) : Strip(n_toks[i]) = <<>>) => normalized = {}

\* C4 witness: a two-token set after a token was repeated and another
\* written with ".0".
C4_Witness ==
  /\ Len(n_toks) >= 3
  /\ \E i \in 1..Len(n_toks) : EndsWith(n_toks[i], DotZero)
  /\ Cardinality(normalized) = 2
  /\ Join(n_toks) # ToStr(n_base)

\* C5: a key row whose Q_ column is absent from the student table causes a
\* warning and no failure, writes no column, and leaves the row's result and
\* total what they would be had the key table not held that row.
C5_MissingColumnOnlyWarns ==
  /\ \A i \in 1..Len(results) :
       Matched(i) =>
         /\ \A k \in 1..Len(GivenTable(i).rows) :
              MissingColumn(GivenTable(i).rows[k]) <=> <<i, k>> \in Warned
         /\ DOMAIN results[i] = DOMAIN Rows[i] \cup {ColTotal}
         /\ LET acc == ScoreAll(Rows[i], WithoutMissing(GivenTable(i).rows),
                                <<Rows[i], Num(0)>>)
            IN results[i] = Put(acc[1], ColTotal, acc[2])
  /\ (pc = "raised" /\ krow >= 1) =>
       (~RowReadable(CurTable) \/ ~MissingColumn(CurKeyRow))

\* C5 witness: the first key row had no column, and the student still got
\* marks from a later key row.
C5_Witness ==
  \E i \in 1..Len(results) :
    /\ <<i, 1>> \in Warned
    /\ IsNum(results[i][ColTotal]) /\ results[i][ColTotal].n > 0

\* C6: every Q_ column of every result row holds awarded marks, a number,
\* not the student's answer.
C6_QuestionColumnsHoldMarks ==
  \A i \in 1..Len(results) : \A c \in QCols : IsNum(results[i][c])

\* C7: once the handler has a student file and a key file, the run ends
\* without a result only when the student file failed to load.
C7_OnlyStudentLoadStopsRun ==
  pc \in {"stopped", "raised"} => ReadOutcome(student_file) # "ok"

\* The file-name convention C<class>P<paper>.<ext> of a key file.
MatchesPattern(name) ==
  /\ name # <<>> /\ name[1] = "C"
  /\ Supported(name)
  /\ \E p \in 3..Len(name) : \E d \in (p + 2)..Len(name) :
       /\ name[p] = "P" /\ name[d] = "."
       /\ \A j \in (2..(d - 1)) \ {p} : name[j] \notin {"C", "P", "."}
       /\ \A j \in (d + 1)..Len(name) : name[j] # "."

\* C8: a key file whose name does not match the convention or whose content
\* cannot be read is reported as an error and registers nothing; every
\* other file is registered under the trimmed class and paper of its name.
C8_OnlyConventionalNamesRegister ==
  \A i \in 1..Len(messages) :
    LET file == uploaded_keys[i]
    IN IF MatchesPattern(file.name) /\ file.readable
       THEN messages[i] = "ok" /\ RegistryKey(file.name) \in DOMAIN answer_keys
       ELSE messages[i] # "ok"

\* C9: the i-th result row is the i-th student row evaluated on its own
\* against the registry as given; the registry changes only by QUESTION_NO
\* being turned into text.
C9_RowsAreIndependent ==
  /\ Len(results) <= Len(Rows)
  /\ (pc = "returned" => Len(results) = Len(Rows))
  /\ \A i \in 1..Len(results) : results[i] = RowAlone(Rows[i], keys_given)
  /\ DOMAIN answer_keys = DOMAIN keys_given
  /\ \A id \in DOMAIN keys_given :
       \/ answer_keys[id] = keys_given[id]
       \/ answer_keys[id] = CoerceQuestionNo(keys_given[id])

\* C9 witness: two rows with different tables and different totals, the
\* second lower than the first.
C9_Witness ==
  /\ pc = "returned"
  /\ Len(results) >= 2
  /\ Matched(1) /\ Matched(2)
  /\ results[1][ColTotal].n > results[2][ColTotal].n
  /\ results[2][ColTotal].n > 0

\* C10 as stated: every column of the student table that is not a Q_ column
\* has in the result row the value it had in the student row.
C10_PassthroughUnchanged ==
  \A i \in 1..Len(results) :
    \A c \in students_df.cols \ QCols : results[i][c] = Rows[i][c]

\* C10 amended: every column of the student table that is neither a Q_
\* column nor named Total_Marks has in the result row the value it had in
\* the student row, and the result row has the student table's columns and
\* Total_Marks, no other.
C10_PassthroughUnchangedExceptTotal ==
  \A i \in 1..Len(results) :
    /\ DOMAIN results[i] = students_df.cols \cup {ColTotal}
    /\ \A c \in students_df.cols \ (QCols \cup {ColTotal}) : results[i][c] = Rows[i][c]

\* C10 witness: the student table has its own Total_Marks column; a scored
\* row had it replaced by the computed total and kept its Class, and another
\* row of the run had no key table.
C10_Witness ==
  /\ pc = "returned"
  /\ ColTotal \in students_df.cols
  /\ \E i, j \in 1..Len(results) :
       /\ Matched(i) /\ ~Matched(j)
       /\ results[i][ColTotal] # Rows[i][ColTotal]
       /\ results[i][ColQ1] # Rows[i][ColQ1]
       /\ results[i][ColClass] = Rows[i][ColClass]

====
